---- MODULE Spec2Model ----
(***************************************************************************)
(* Model of the user resource of the Fastify/Supabase boilerplate:         *)
(*   route -> UserHandler -> UserService -> SupabaseUserRepository -> store *)
(* Every request is one asynchronous task that suspends only while the     *)
(* store answers a query, so each action below is one store answer plus    *)
(* the continuation the code runs before the next await.  The health      *)
(* endpoint is a third kind of request.  HandlerSpec and RepoSpec apply    *)
(* the handlers and the repository operations on their own, to every       *)
(* outcome of the call they await.                                         *)
(***************************************************************************)
EXTENDS Integers, Sequences, FiniteSets, TLC

\* store, now, reqs: the running application; unit: one function of the
\* code applied on its own to an input drawn from a bounded set.
VARIABLES store, now, reqs, unit

vars == <<store, now, reqs, unit>>

(***************************************************************************)
(* Bounds of the model.                                                    *)
(***************************************************************************)
MaxReq == 2
MaxClock == 1000
\* Length of a sequence of requests made one after the other
ScenarioLen == 4
\* Number of getSupabaseClient calls in one process
MaxCalls == 5
\* Number of termination signals delivered to one process
MaxSignals == 3
\* Number of times the module generator is run for one name
MaxRuns == 2
\* Number of file-system calls that throw while the generator runs
MaxThrows == 1

\* Store timestamps have microsecond precision, a JS Date millisecond precision.
UsPerMs == 1000
ClockStep == UsPerMs \div 2

Requests == 1..MaxReq

(***************************************************************************)
(* JavaScript values that can arrive as an identifier.                     *)
(***************************************************************************)
Str(s) == [t |-> "string", v |-> s]
Num(s) == [t |-> "number", v |-> s]
Undefined == [t |-> "undefined", v |-> ""]
JsNull == [t |-> "null", v |-> ""]
Obj == [t |-> "object", v |-> "{}"]

\* ToBoolean of a JavaScript value
Truthy(x) ==
  CASE x.t = "string" -> x.v # ""
    [] x.t = "number" -> x.v \notin {"0", "NaN"}
    [] x.t \in {"undefined", "null"} -> FALSE
    [] OTHER -> TRUE

TypeOf(x) == IF x.t = "null" THEN "object" ELSE x.t

IdPool == <<"u1", "u2", "u3", "u4">>
Emails == {"a@b.com", "c@d.com"}
Passwords == {"pw1"}
UserIdInputs ==
  {Str(""), Str("u1"), Str("0000"), Undefined, Num("7"), Obj}
Bodies == [email : Emails, username : {"name"}, password : Passwords]

\* A property a JSON body does not have
Missing == "<missing>"
\* The bodies a client may send: with an email, or without one
RequestBodies == Bodies \cup [email : {Missing}, username : {"name"}, password : Passwords]

Null == [null |-> TRUE]
NoBody == [email |-> "", username |-> "", password |-> ""]

(***************************************************************************)
(* The store (a Postgres table behind the Supabase client).                *)
(***************************************************************************)
NoPgError == [none |-> TRUE]
UniqueViolation == [code |-> "23505", message |-> "duplicate key value violates unique constraint"]
ConnectionFailure == [code |-> "08006", message |-> "connection failure"]
MultipleRows == [code |-> "PGRST116", message |-> "JSON object requested, multiple (or no) rows returned"]

PgCode(error) == IF error = NoPgError THEN "" ELSE error.code

Answer(data, error, stored) == [data |-> data, error |-> error, stored |-> stored]

\* .select('*').eq(column, value).maybeSingle()
SelectMaybeSingle(rows) ==
  (IF rows = {} THEN {Answer(Null, NoPgError, {})}
   ELSE IF Cardinality(rows) = 1 THEN {Answer(row, NoPgError, {}) : row \in rows}
   ELSE {Answer(Null, MultipleRows, {})})
  \cup {Answer(Null, ConnectionFailure, {})}

SelectById(id) == SelectMaybeSingle({row \in store : row.id = id})
SelectByEmail(email) == SelectMaybeSingle({row \in store : row.email = email})

NewRow(dbData) ==
  [id |-> IdPool[Cardinality(store) + 1],
   email |-> dbData.email,
   username |-> dbData.username,
   password |-> dbData.password,
   created_at |-> now,
   updated_at |-> now]

\* .insert(dbData).select("*").single(): the table's unique constraint on
\* email rejects a second row (code 23505); any call may fail otherwise.
InsertSingle(dbData) ==
  (IF \E row \in store : row.email = dbData.email
   THEN {Answer(Null, UniqueViolation, {})}
   ELSE {Answer(NewRow(dbData), NoPgError, {NewRow(dbData)})})
  \cup {Answer(Null, ConnectionFailure, {}), Answer(Null, NoPgError, {})}

(***************************************************************************)
(* Errors and outcomes of a call.                                          *)
(***************************************************************************)
NoError == [name |-> "", message |-> "", code |-> 0, originalError |-> NoPgError]
DatabaseError(message, originalError) ==
  [name |-> "DatabaseError", message |-> message, code |-> 0, originalError |-> originalError]
ApplicationError(message, code) ==
  [name |-> "ApplicationError", message |-> message, code |-> code, originalError |-> NoPgError]

LogEntry(via, text, err) == [via |-> via, text |-> text, err |-> err]

Return(val, log) == [tag |-> "return", val |-> val, err |-> NoError, log |-> log]
Throw(err, log) == [tag |-> "throw", val |-> Null, err |-> err, log |-> log]
NoOutcome == [tag |-> "none", val |-> Null, err |-> NoError, log |-> <<>>]

(***************************************************************************)
(* SupabaseUserRepository                                                  *)
(***************************************************************************)
\* A timestamp column the row does not have (undefined), and the Invalid
\* Date that new Date(undefined) gives
MissingTs == -1
InvalidDate == -1

\* new Date(timestamp string)
DateOf(ts) == IF ts = MissingTs THEN InvalidDate ELSE ts \div UsPerMs

\* Mutant: the timestamps are read from columns the row does not have
\* (createdAt for created_at), which gives an Invalid Date, written -1.
mapToDomain_wrongColumn(dbUser) ==
  IF dbUser = Null THEN Null
  ELSE [id |-> dbUser.id,
        email |-> dbUser.email,
        username |-> dbUser.username,
        password |-> dbUser.password,
        updated_at |-> -1,
        created_at |-> -1]

mapToDomain(dbUser) ==
  IF dbUser = Null THEN Null
  ELSE [id |-> dbUser.id,
        email |-> dbUser.email,
        username |-> dbUser.username,
        password |-> dbUser.password,
        updated_at |-> DateOf(dbUser.updated_at),
        created_at |-> DateOf(dbUser.created_at)]

\* Mutant: the repository raises the service's kind of error.
handleError_asApplicationError(error, context) ==
  IF error # NoPgError
  THEN Throw([ApplicationError("Database operation failed: " \o context, 500)
                EXCEPT !.originalError = error],
             <<LogEntry("console.error", "Supabase error during " \o context, error)>>)
  ELSE Return(Null, <<>>)

handleError(error, context) ==
  IF error # NoPgError
  THEN Throw(DatabaseError("Database operation failed: " \o context, error),
             <<LogEntry("console.error", "Supabase error during " \o context, error)>>)
  ELSE Return(Null, <<>>)

\* Mutant: the row is returned as the store gave it, not mapped.
findById_unmapped(ans, id) ==
  LET h == handleError(ans.error, "findById " \o id)
  IN IF h.tag = "throw" THEN h ELSE Return(ans.data, <<>>)

findById(ans, id) ==
  LET h == handleError(ans.error, "findById " \o id)
  IN IF h.tag = "throw" THEN h ELSE Return(mapToDomain(ans.data), <<>>)

\* Mutant: the error is looked at only when no row came with it.
findByEmail_rowBeforeError(ans, email) ==
  LET h == handleError(ans.error, "findByEmail " \o email)
  IN IF h.tag = "throw" /\ ans.data = Null THEN h ELSE Return(mapToDomain(ans.data), <<>>)

findByEmail(ans, email) ==
  LET h == handleError(ans.error, "findByEmail " \o email)
  IN IF h.tag = "throw" THEN h ELSE Return(mapToDomain(ans.data), <<>>)

\* Mutant: a unique-constraint conflict is taken for a successful insert.
create_conflictAsSuccess(ans, userData) ==
  IF PgCode(ans.error) = "23505"
  THEN Return([id |-> "", email |-> userData.email, username |-> userData.username,
               password |-> userData.password, updated_at |-> 0, created_at |-> 0], <<>>)
  ELSE IF ans.error # NoPgError \/ ans.data = Null
  THEN Throw(DatabaseError("User creation failed", ans.error), <<>>)
  ELSE Return(mapToDomain(ans.data), <<>>)

\* Mutant: code 23505 is not told apart from the other store errors.
create_conflictNotDetected(ans, userData) ==
  LET data == ans.data
      error == ans.error
      log1 == <<LogEntry("console.error", "Supabase error during create:", error)>>
      h == handleError(error, "create user with email " \o userData.email)
      mappedUser == mapToDomain(data)
  IN IF error # NoPgError \/ data = Null
     THEN IF h.tag = "throw"
          THEN Throw(h.err, log1 \o h.log)
          ELSE Throw(DatabaseError("User creation failed: No data returned from database", NoPgError), log1)
     ELSE IF mappedUser = Null
          THEN Throw(DatabaseError("Failed to map created user data to domain object.", NoPgError), <<>>)
          ELSE Return(mappedUser, <<>>)

create(ans, userData) ==
  LET data == ans.data
      error == ans.error
      log1 == <<LogEntry("console.error", "Supabase error during create:", error)>>
      h == handleError(error, "create user with email " \o userData.email)
      mappedUser == mapToDomain(data)
  IN IF error # NoPgError \/ data = Null
     THEN IF PgCode(error) = "23505"
          THEN Throw(DatabaseError("Unique constraint violation (e.g., email already exists)", error), log1)
          ELSE IF h.tag = "throw"
          THEN Throw(h.err, log1 \o h.log)
          ELSE Throw(DatabaseError("User creation failed: No data returned from database", NoPgError), log1)
     ELSE IF mappedUser = Null
          THEN Throw(DatabaseError("Failed to map created user data to domain object.", NoPgError), <<>>)
          ELSE Return(mappedUser, <<>>)

(***************************************************************************)
(* UserService                                                             *)
(***************************************************************************)
\* Mutant: the typeof test is left out.
InvalidId_noTypeTest(id) == ~Truthy(id) \/ Len(id.v) < 1

InvalidId(id) == ~Truthy(id) \/ TypeOf(id) # "string" \/ Len(id.v) < 1

\* getUserById up to its await: the format check
UserService_getUserById_check(id) ==
  IF InvalidId(id)
  THEN Throw(ApplicationError("Invalid user ID format provided.", 400), <<>>)
  ELSE NoOutcome

\* Mutant: absence is raised as an error.
UserService_getUserById_resume_throwsNotFound(found) ==
  IF found.tag = "throw" THEN found
  ELSE IF found.val = Null THEN Throw(ApplicationError("User not found.", 404), found.log)
  ELSE Return(found.val, found.log)

\* getUserById after repository.findById has settled
UserService_getUserById_resume(found) ==
  IF found.tag = "throw" THEN found
  ELSE IF found.val = Null THEN Return(Null, found.log)
  ELSE Return(found.val, found.log)

\* Mutant: the result of the pre-check is ignored.
UserService_createUser_precheck_ignored(existing) ==
  IF existing.tag = "throw" THEN existing ELSE NoOutcome

\* Mutant: the duplicate is reported as a bad request.
UserService_createUser_precheck_as400(existing) ==
  IF existing.tag = "throw" THEN existing
  ELSE IF existing.val # Null
  THEN Throw(ApplicationError("User with this email already exists.", 400), existing.log)
  ELSE NoOutcome

\* Mutant: a failed pre-check is taken for an absent user.
UserService_createUser_precheck_swallows(existing) ==
  IF existing.tag = "throw" THEN NoOutcome
  ELSE IF existing.val # Null
  THEN Throw(ApplicationError("User with this email already exists.", 409), existing.log)
  ELSE NoOutcome

\* createUser after repository.findByEmail has settled; NoOutcome: go on to create
UserService_createUser_precheck(existing) ==
  IF existing.tag = "throw" THEN existing
  ELSE IF existing.val # Null
  THEN Throw(ApplicationError("User with this email already exists.", 409), existing.log)
  ELSE NoOutcome

\* Mutant: the catch block rethrows what it caught.
UserService_createUser_resume_rethrows(created) ==
  IF created.tag = "throw"
  THEN Throw(created.err,
             created.log \o <<LogEntry("console.error", "Database error during user creation:", created.err)>>)
  ELSE Return(created.val, created.log)

\* Mutant: the new error carries the message of the one caught.
UserService_createUser_resume_leaksMessage(created) ==
  IF created.tag = "throw"
  THEN Throw(ApplicationError(created.err.message, 500),
             created.log \o <<LogEntry("console.error", "Database error during user creation:", created.err)>>)
  ELSE Return(created.val, created.log)

\* createUser after repository.create has settled (the try/catch)
UserService_createUser_resume(created) ==
  IF created.tag = "throw"
  THEN Throw(ApplicationError("Failed to create user due to a database issue.", 500),
             created.log \o <<LogEntry("console.error", "Database error during user creation:", created.err)>>)
  ELSE Return(created.val, created.log)

(***************************************************************************)
(* UserHandler                                                             *)
(***************************************************************************)
\* @fastify/sensible: reply.conflict, reply.badRequest, reply.notFound, ...
HttpError(status, error, message) ==
  [status |-> status, error |-> error, message |-> message, body |-> Null]
Send(status, body) ==
  [status |-> status, error |-> "", message |-> "", body |-> body]
NoResponse == [status |-> 0, error |-> "", message |-> "", body |-> Null]

RequestLogError(text, err, input) ==
  [via |-> "request.log.error", text |-> text, err |-> err, input |-> input]

\* Mutant: the whole entity is copied into the response.
mapUserToResponse_wholeEntity(user) ==
  [id |-> user.id, email |-> user.email, username |-> user.username,
   password |-> user.password, created_at |-> user.created_at]

mapUserToResponse(user) ==
  [id |-> user.id, email |-> user.email, created_at |-> user.created_at]

\* What a handler does with a request, in the order of the code: the log
\* entries it writes, then the reply it sends.
ReplyEvent(resp) == [via |-> "reply", resp |-> resp]
Handled(resp, log) == [resp |-> resp, log |-> Append(log, ReplyEvent(resp))]
Replies(log) == Cardinality({i \in 1..Len(log) : log[i].via = "reply"})

\* Mutant: every failure is answered 500 with the message of the error.
UserHandler_createUser_messageThrough(body, svc) ==
  IF svc.tag = "return"
  THEN Handled(Send(201, mapUserToResponse(svc.val)), <<>>)
  ELSE Handled(HttpError(500, "Internal Server Error", svc.err.message),
               <<RequestLogError("Error creating user", svc.err, body)>>)

\* Mutant: a created user is answered 200, and an error that is neither an
\* ApplicationError nor a DatabaseError 503.
UserHandler_createUser_otherStatuses(body, svc) ==
  IF svc.tag = "return"
  THEN Handled(Send(200, mapUserToResponse(svc.val)), <<>>)
  ELSE LET error == svc.err
           log == <<RequestLogError("Error creating user", error, body)>>
       IN IF error.name = "ApplicationError" /\ error.code = 409
          THEN Handled(HttpError(409, "Conflict", error.message), log)
          ELSE IF error.name = "ApplicationError" /\ error.code = 400
          THEN Handled(HttpError(400, "Bad Request", error.message), log)
          ELSE IF error.name = "DatabaseError"
          THEN Handled(HttpError(500, "Internal Server Error",
                                 "A database error occurred while creating the user."), log)
          ELSE Handled(HttpError(503, "Service Unavailable",
                                 "An unexpected error occurred while creating the user."), log)

\* Mutant: the catch block replies without writing the error to the log.
UserHandler_createUser_noLog(body, svc) ==
  IF svc.tag = "return"
  THEN Handled(Send(201, mapUserToResponse(svc.val)), <<>>)
  ELSE LET error == svc.err
       IN IF error.name = "ApplicationError" /\ error.code = 409
          THEN Handled(HttpError(409, "Conflict", error.message), <<>>)
          ELSE IF error.name = "ApplicationError" /\ error.code = 400
          THEN Handled(HttpError(400, "Bad Request", error.message), <<>>)
          ELSE IF error.name = "DatabaseError"
          THEN Handled(HttpError(500, "Internal Server Error",
                                 "A database error occurred while creating the user."), <<>>)
          ELSE Handled(HttpError(500, "Internal Server Error",
                                 "An unexpected error occurred while creating the user."), <<>>)

UserHandler_createUser(body, svc) ==
  IF svc.tag = "return"
  THEN Handled(Send(201, mapUserToResponse(svc.val)), <<>>)
  ELSE LET error == svc.err
           log == <<RequestLogError("Error creating user", error, body)>>
       IN IF error.name = "ApplicationError" /\ error.code = 409
          THEN Handled(HttpError(409, "Conflict", error.message), log)
          ELSE IF error.name = "ApplicationError" /\ error.code = 400
          THEN Handled(HttpError(400, "Bad Request", error.message), log)
          ELSE IF error.name = "DatabaseError"
          THEN Handled(HttpError(500, "Internal Server Error",
                                 "A database error occurred while creating the user."), log)
          ELSE Handled(HttpError(500, "Internal Server Error",
                                 "An unexpected error occurred while creating the user."), log)

\* Mutant: the 400 of the service is not told apart from other failures.
UserHandler_getUserById_no400(userId, svc) ==
  IF svc.tag = "return"
  THEN IF svc.val = Null
       THEN Handled(HttpError(404, "Not Found", "User with ID " \o userId.v \o " not found."), <<>>)
       ELSE Handled(Send(200, mapUserToResponse(svc.val)), <<>>)
  ELSE Handled(HttpError(500, "Internal Server Error",
                         "An unexpected error occurred while fetching the user."),
               <<RequestLogError("Error fetching user by ID", svc.err, userId)>>)

\* Mutant: an error the handler does not know is answered with its message.
UserHandler_getUserById_unknownThrough(userId, svc) ==
  IF svc.tag = "return"
  THEN IF svc.val = Null
       THEN Handled(HttpError(404, "Not Found", "User with ID " \o userId.v \o " not found."), <<>>)
       ELSE Handled(Send(200, mapUserToResponse(svc.val)), <<>>)
  ELSE LET error == svc.err
           log == <<RequestLogError("Error fetching user by ID", error, userId)>>
       IN IF error.name = "ApplicationError" /\ error.code = 400
          THEN Handled(HttpError(400, "Bad Request", error.message), log)
          ELSE IF error.name = "DatabaseError"
          THEN Handled(HttpError(500, "Internal Server Error",
                                 "A database error occurred while fetching the user."), log)
          ELSE Handled(HttpError(500, "Internal Server Error", error.message), log)

\* Mutant: the 404 branch does not return; the handler goes on to map the
\* absent user, which throws into the catch block, and replies a second time.
UserHandler_getUserById_noReturn(userId, svc) ==
  IF svc.tag = "return"
  THEN IF svc.val = Null
       THEN LET first == HttpError(404, "Not Found", "User with ID " \o userId.v \o " not found.")
                error == [NoError EXCEPT !.name = "TypeError",
                                         !.message = "Cannot read properties of null"]
            IN [resp |-> first,
                log |-> <<ReplyEvent(first),
                          RequestLogError("Error fetching user by ID", error, userId),
                          ReplyEvent(HttpError(500, "Internal Server Error",
                             "An unexpected error occurred while fetching the user."))>>]
       ELSE Handled(Send(200, mapUserToResponse(svc.val)), <<>>)
  ELSE LET error == svc.err
           log == <<RequestLogError("Error fetching user by ID", error, userId)>>
       IN IF error.name = "ApplicationError" /\ error.code = 400
          THEN Handled(HttpError(400, "Bad Request", error.message), log)
          ELSE IF error.name = "DatabaseError"
          THEN Handled(HttpError(500, "Internal Server Error",
                                 "A database error occurred while fetching the user."), log)
          ELSE Handled(HttpError(500, "Internal Server Error",
                                 "An unexpected error occurred while fetching the user."), log)

UserHandler_getUserById(userId, svc) ==
  IF svc.tag = "return"
  THEN IF svc.val = Null
       THEN Handled(HttpError(404, "Not Found", "User with ID " \o userId.v \o " not found."), <<>>)
       ELSE Handled(Send(200, mapUserToResponse(svc.val)), <<>>)
  ELSE LET error == svc.err
           log == <<RequestLogError("Error fetching user by ID", error, userId)>>
       IN IF error.name = "ApplicationError" /\ error.code = 400
          THEN Handled(HttpError(400, "Bad Request", error.message), log)
          ELSE IF error.name = "DatabaseError"
          THEN Handled(HttpError(500, "Internal Server Error",
                                 "A database error occurred while fetching the user."), log)
          ELSE Handled(HttpError(500, "Internal Server Error",
                                 "An unexpected error occurred while fetching the user."), log)

(***************************************************************************)
(* Routes: request schemas, response schemas, the health endpoint          *)
(***************************************************************************)
\* The body schema of POST /: an object with a required string email
createUserRouteBody(body) == body.email # Missing

\* The uuid format of JSON Schema: the store's ids have it
UuidFormat(v) == \E i \in 1..Len(IdPool) : IdPool[i] = v

\* userIdParamsJsonSchema: userId is a string of format uuid
userIdParamsJsonSchema(userId) == userId.t = "string" /\ UuidFormat(userId.v)

\* The schema of GET /:userId names no params schema: nothing is validated
getUserRouteParams(userId) == TRUE

\* The transport's reply to a request that fails its route's request schema
ValidationReply ==
  HttpError(400, "Bad Request", "body must have required property 'email'")

\* The properties each route's response schema declares for a status; the
\* serializer writes these and no other property of the payload.
\* Mutant: the 503 schema of the health endpoint declares the error property.
ResponseProperties_errorDeclared(kind, status) ==
  CASE kind = "POST" /\ status = 201 -> {"id", "email"}
    [] kind = "GET" /\ status = 200 -> {"id", "email", "created_at"}
    [] kind = "HEALTH" /\ status = 200 -> {"status", "timestamp"}
    [] kind = "HEALTH" /\ status = 503 -> {"status", "message", "error", "timestamp"}
    [] OTHER -> {"statusCode", "error", "message"}

ResponseProperties(kind, status) ==
  CASE kind = "POST" /\ status = 201 -> {"id", "email"}
    [] kind = "GET" /\ status = 200 -> {"id", "email", "created_at"}
    [] kind = "HEALTH" /\ status = 200 -> {"status", "timestamp"}
    [] kind = "HEALTH" /\ status = 503 -> {"status", "message", "timestamp"}
    [] OTHER -> {"statusCode", "error", "message"}

SerializeBy(properties, payload) ==
  [f \in (DOMAIN payload) \cap properties |-> payload[f]]

\* The JSON body a reply puts on the wire
JsonBody(kind, resp) ==
  SerializeBy(ResponseProperties(kind, resp.status),
              IF resp.body = Null
              THEN [statusCode |-> resp.status, error |-> resp.error, message |-> resp.message]
              ELSE resp.body)

Error(message) ==
  [name |-> "Error", message |-> message, code |-> 0, originalError |-> NoPgError]

\* The reachability query of GET /health: it returns without an error,
\* returns an error, or the client call throws.
NotThrown == [none |-> TRUE]
HealthQuery ==
  {[error |-> NoPgError, thrown |-> NotThrown],
   [error |-> ConnectionFailure, thrown |-> NotThrown],
   [error |-> NoPgError, thrown |-> Error("fetch failed")]}

\* Mutant: the error the query returns is not looked at.
HealthCheck_errorIgnored(ans, t) ==
  IF ans.thrown = NotThrown
  THEN Handled(Send(200, [status |-> "ok", timestamp |-> t]), <<>>)
  ELSE Handled(Send(503, [status |-> "error", message |-> "Service unavailable",
                          error |-> ans.thrown.message, timestamp |-> t]),
               <<[via |-> "request.log.error", text |-> "Health check failed",
                  err |-> ans.thrown, input |-> Null]>>)

\* The handler of GET /health, from the answer of the query on; t: new Date()
HealthCheck(ans, t) ==
  IF ans.thrown = NotThrown /\ ans.error = NoPgError
  THEN Handled(Send(200, [status |-> "ok", timestamp |-> t]), <<>>)
  ELSE LET err == IF ans.thrown # NotThrown THEN ans.thrown
                  ELSE Error("Supabase reachability check failed: " \o ans.error.message)
       IN Handled(Send(503, [status |-> "error", message |-> "Service unavailable",
                             error |-> err.message, timestamp |-> t]),
                  <<[via |-> "request.log.error", text |-> "Health check failed",
                     err |-> err, input |-> Null]>>)

(***************************************************************************)
(* Requests in flight                                                      *)
(***************************************************************************)
\* found: what findById / findByEmail gave; created: what create gave;
\* answers: the store's raw answers to this request, in order.
IdleRequest ==
  [kind |-> "none", body |-> NoBody, userId |-> Undefined, pc |-> "idle",
   callTime |-> 0, repoCalls |-> {}, answers |-> <<>>, found |-> NoOutcome,
   created |-> NoOutcome, svc |-> NoOutcome, resp |-> NoResponse, replies |-> 0,
   log |-> <<>>, handler |-> "none"]

\* The instances the routes are wired from: each constructor keeps the one
\* collaborator it is given in a field.
SupabaseUserRepository_new(supabase) == [supabase |-> supabase, tableName |-> "users"]
UserService_new(userRepository) == [userRepository |-> userRepository]
UserHandler_new(userService) == [userService |-> userService]

\* The variables of the process that all requests share: the store client
\* decorated onto the server, and the repository, service and handler
\* that userRoutes has built.
SharedInstances ==
  LET supabase == [client |-> 1]
      userRepository == SupabaseUserRepository_new(supabase)
      userService == UserService_new(userRepository)
  IN [op |-> "app", supabase |-> supabase, userRepository |-> userRepository,
      userService |-> userService, userHandler |-> UserHandler_new(userService)]

\* A user that registered before this process started.
SeedRow ==
  [id |-> IdPool[1], email |-> "a@b.com", username |-> "name", password |-> "pw0",
   created_at |-> 0, updated_at |-> 0]

Init ==
  /\ store \in {{}, {SeedRow}}
  /\ now = 0
  /\ reqs = [r \in Requests |-> IdleRequest]
  /\ unit = SharedInstances

CanArrive(r) ==
  /\ reqs[r].pc = "idle"
  /\ IF r = 1 THEN TRUE ELSE reqs[r - 1].pc # "idle"

\* A request settles: the handler has the service's outcome and replies once.
Settle(req, svc, handled) ==
  [req EXCEPT !.pc = "done", !.svc = svc, !.resp = handled.resp,
              !.replies = @ + Replies(handled.log),
              !.log = @ \o svc.log \o handled.log]

\* The store clock advances.
Tick ==
  /\ now + ClockStep <= MaxClock
  /\ now' = now + ClockStep
  /\ UNCHANGED <<store, reqs, unit>>

\* POST /: the handler calls createUser, which awaits repository.findByEmail.
PostArrives(r, body) ==
  /\ CanArrive(r)
  /\ reqs' = [reqs EXCEPT ![r] =
       IF ~createUserRouteBody(body)
       THEN [@ EXCEPT !.kind = "POST", !.body = body, !.pc = "done",
                      !.resp = ValidationReply, !.replies = 1,
                      !.log = <<ReplyEvent(ValidationReply)>>]
       ELSE [@ EXCEPT !.kind = "POST", !.body = body, !.pc = "findByEmail",
                      !.handler = "createUser",
                      !.callTime = now, !.repoCalls = {"findByEmail"},
                      !.log = <<[via |-> "console.log", text |-> "userData: ", input |-> body]>>]]
  /\ UNCHANGED <<store, now, unit>>

\* GET /:userId: the handler calls getUserById, which checks the id and
\* then awaits repository.findById.
GetArrives(r, userId) ==
  /\ CanArrive(r)
  /\ getUserRouteParams(userId)
  /\ LET req == [reqs[r] EXCEPT !.kind = "GET", !.userId = userId,
                                !.handler = "getUserById"]
         svc == UserService_getUserById_check(userId)
     IN reqs' = [reqs EXCEPT ![r] =
          IF svc.tag = "throw"
          THEN Settle(req, svc, UserHandler_getUserById(userId, svc))
          ELSE [req EXCEPT !.pc = "findById", !.repoCalls = {"findById"}]]
  /\ UNCHANGED <<store, now, unit>>

\* Mutant: the service keeps the user it last read in a field of its own.
FindByIdAnswers_serviceRemembers(r) ==
  /\ reqs[r].pc = "findById"
  /\ \E ans \in SelectById(reqs[r].userId.v) :
       LET found == findById(ans, reqs[r].userId.v)
           req == [reqs[r] EXCEPT !.answers = Append(@, ans), !.found = found]
           svc == UserService_getUserById_resume(found)
       IN /\ reqs' = [reqs EXCEPT ![r] =
               Settle(req, svc, UserHandler_getUserById(req.userId, svc))]
          /\ unit' = [unit EXCEPT !.userService =
               [userRepository |-> @.userRepository, lastRead |-> found.val]]
  /\ UNCHANGED <<store, now>>

\* The store answers findById; getUserById and the handler run to the reply.
FindByIdAnswers(r) ==
  /\ reqs[r].pc = "findById"
  /\ \E ans \in SelectById(reqs[r].userId.v) :
       LET found == findById(ans, reqs[r].userId.v)
           req == [reqs[r] EXCEPT !.answers = Append(@, ans), !.found = found]
           svc == UserService_getUserById_resume(found)
       IN reqs' = [reqs EXCEPT ![r] =
            Settle(req, svc, UserHandler_getUserById(req.userId, svc))]
  /\ UNCHANGED <<store, now, unit>>

\* The store answers findByEmail; createUser fails (409, or the lookup's
\* error), or goes on to await repository.create.
FindByEmailAnswers(r) ==
  /\ reqs[r].pc = "findByEmail"
  /\ \E ans \in SelectByEmail(reqs[r].body.email) :
       LET found == findByEmail(ans, reqs[r].body.email)
           req == [reqs[r] EXCEPT !.answers = Append(@, ans), !.found = found]
           svc == UserService_createUser_precheck(found)
       IN reqs' = [reqs EXCEPT ![r] =
            IF svc.tag = "none"
            THEN [req EXCEPT !.pc = "create", !.repoCalls = @ \cup {"create"}]
            ELSE Settle(req, svc, UserHandler_createUser(req.body, svc))]
  /\ UNCHANGED <<store, now, unit>>

\* The store executes the insert and answers; createUser and the handler
\* run to the reply.
CreateAnswers(r) ==
  /\ reqs[r].pc = "create"
  /\ \E ans \in InsertSingle(reqs[r].body) :
       LET created == create(ans, reqs[r].body)
           req == [reqs[r] EXCEPT !.answers = Append(@, ans), !.created = created]
           svc == UserService_createUser_resume(created)
       IN /\ store' = store \cup ans.stored
          /\ reqs' = [reqs EXCEPT ![r] =
               Settle(req, svc, UserHandler_createUser(req.body, svc))]
  /\ UNCHANGED <<now, unit>>

\* GET /health: the handler awaits the reachability query.
HealthArrives(r) ==
  /\ CanArrive(r)
  /\ reqs' = [reqs EXCEPT ![r] = [@ EXCEPT !.kind = "HEALTH", !.pc = "health",
                                           !.handler = "health"]]
  /\ UNCHANGED <<store, now, unit>>

\* The query settles; the handler replies.
HealthAnswers(r) ==
  /\ reqs[r].pc = "health"
  /\ \E ans \in HealthQuery :
       LET handled == HealthCheck(ans, DateOf(now))
       IN reqs' = [reqs EXCEPT ![r] =
            [@ EXCEPT !.pc = "done", !.answers = <<ans>>, !.resp = handled.resp,
                      !.replies = @ + Replies(handled.log), !.log = handled.log]]
  /\ UNCHANGED <<store, now, unit>>

Next ==
  \/ Tick
  \/ \E r \in Requests, body \in RequestBodies : PostArrives(r, body)
  \/ \E r \in Requests, userId \in UserIdInputs : GetArrives(r, userId)
  \/ \E r \in Requests : FindByIdAnswers(r)
  \/ \E r \in Requests : FindByEmailAnswers(r)
  \/ \E r \in Requests : CreateAnswers(r)
  \/ \E r \in Requests : HealthArrives(r)
  \/ \E r \in Requests : HealthAnswers(r)

Spec == Init /\ [][Next]_vars

(***************************************************************************)
(* One client that sends its requests one after the other, each after the  *)
(* reply to the one before, to a store that answers every call without a   *)
(* failure.                                                                *)
(***************************************************************************)
ScenarioRequests == 1..ScenarioLen
ScenarioIds == {Str(IdPool[i]) : i \in 1..Len(IdPool)} \cup {Str("0000")}

ScenarioInit ==
  /\ store \in {{}, {SeedRow}}
  /\ now = 0
  /\ reqs = [r \in ScenarioRequests |-> IdleRequest]
  /\ unit = SharedInstances

InTurn(r) == IF r = 1 THEN TRUE ELSE reqs[r - 1].pc = "done"

\* Every answer the store gave to the request is free of errors, and the
\* insert returned its row
NoStoreFailure(req) ==
  \A i \in 1..Len(req.answers) :
    /\ req.answers[i].error = NoPgError
    /\ i = 2 => req.answers[i].data # Null

ScenarioPost(r, body) == InTurn(r) /\ PostArrives(r, body)
ScenarioGet(r, userId) == InTurn(r) /\ GetArrives(r, userId)
ScenarioFindById(r) == FindByIdAnswers(r) /\ NoStoreFailure(reqs'[r])
ScenarioFindByEmail(r) == FindByEmailAnswers(r) /\ NoStoreFailure(reqs'[r])
ScenarioCreate(r) == CreateAnswers(r) /\ NoStoreFailure(reqs'[r])

ScenarioNext ==
  \/ \E r \in ScenarioRequests, body \in Bodies : ScenarioPost(r, body)
  \/ \E r \in ScenarioRequests, userId \in ScenarioIds : ScenarioGet(r, userId)
  \/ \E r \in ScenarioRequests : ScenarioFindById(r)
  \/ \E r \in ScenarioRequests : ScenarioFindByEmail(r)
  \/ \E r \in ScenarioRequests : ScenarioCreate(r)

ScenarioSpec == ScenarioInit /\ [][ScenarioNext]_vars

(***************************************************************************)
(* The handlers on their own: each is applied to one input and one outcome *)
(* of its service call, any value the awaited promise can settle with.     *)
(***************************************************************************)
Entities ==
  [id : {IdPool[1]}, email : Emails, username : {"name"}, password : {"pw0", "pw1"},
   updated_at : {0}, created_at : {0, 1}]

Thrown ==
  {ApplicationError(m, c) : m \in {"Invalid user ID format provided.",
                                   "User with this email already exists."},
                            c \in {400, 404, 409, 500}}
  \cup {ApplicationError("Failed to create user due to a database issue.", 500)}
  \cup {DatabaseError("Database operation failed: findById u1", ConnectionFailure),
        DatabaseError("Unique constraint violation (e.g., email already exists)", UniqueViolation)}
  \cup {Error("fetch failed"), [Error("x is not a function") EXCEPT !.name = "TypeError"]}

\* createUser resolves to a User or rejects; getUserById may resolve to null
CreateUserOutcomes ==
  {Return(e, <<>>) : e \in Entities} \cup {Throw(err, <<>>) : err \in Thrown}
GetUserByIdOutcomes == CreateUserOutcomes \cup {Return(Null, <<>>)}

NotHandled == [resp |-> NoResponse, log |-> <<>>]

HandlerInit ==
  /\ store = {}
  /\ now = 0
  /\ reqs = [r \in Requests |-> IdleRequest]
  /\ unit \in [op : {"UserHandler.createUser"}, input : Bodies, svc : CreateUserOutcomes,
                pc : {"called"}, handled : {NotHandled}]
          \cup [op : {"UserHandler.getUserById"}, input : UserIdInputs,
                 svc : GetUserByIdOutcomes, pc : {"called"}, handled : {NotHandled}]

CreateUserHandles ==
  /\ unit.op = "UserHandler.createUser" /\ unit.pc = "called"
  /\ unit' = [unit EXCEPT !.pc = "done",
                          !.handled = UserHandler_createUser(unit.input, unit.svc)]
  /\ UNCHANGED <<store, now, reqs>>

GetUserByIdHandles ==
  /\ unit.op = "UserHandler.getUserById" /\ unit.pc = "called"
  /\ unit' = [unit EXCEPT !.pc = "done",
                          !.handled = UserHandler_getUserById(unit.input, unit.svc)]
  /\ UNCHANGED <<store, now, reqs>>

HandlerNext == CreateUserHandles \/ GetUserByIdHandles

HandlerSpec == HandlerInit /\ [][HandlerNext]_vars

(***************************************************************************)
(* The repository on its own: each operation is applied to one answer of   *)
(* the store, any pair of data and error the client can resolve with, the  *)
(* row well-formed or lacking columns.                                     *)
(***************************************************************************)
StoreRows ==
  [id : {IdPool[1], Missing}, email : {"a@b.com", Missing}, username : {"name"},
   password : {"pw1"}, created_at : {MaxClock, MissingTs},
   updated_at : {MaxClock + ClockStep, MissingTs}]

StoreAnswers ==
  {Answer(data, error, {}) : data \in StoreRows \cup {Null},
                             error \in {NoPgError, UniqueViolation, ConnectionFailure}}

RepoInit ==
  /\ store = {}
  /\ now = 0
  /\ reqs = [r \in Requests |-> IdleRequest]
  /\ unit \in [op : {"findById", "findByEmail", "create", "mapToDomain"},
                ans : StoreAnswers, pc : {"called"}, result : {NoOutcome}]
  /\ unit.op = "mapToDomain" => unit.ans.error = NoPgError

FindByIdReturns ==
  /\ unit.op = "findById" /\ unit.pc = "called"
  /\ unit' = [unit EXCEPT !.pc = "done", !.result = findById(unit.ans, IdPool[1])]
  /\ UNCHANGED <<store, now, reqs>>

FindByEmailReturns ==
  /\ unit.op = "findByEmail" /\ unit.pc = "called"
  /\ unit' = [unit EXCEPT !.pc = "done", !.result = findByEmail(unit.ans, "a@b.com")]
  /\ UNCHANGED <<store, now, reqs>>

CreateReturns ==
  /\ unit.op = "create" /\ unit.pc = "called"
  /\ \E userData \in {b \in Bodies : b.email = "a@b.com"} :
       unit' = [unit EXCEPT !.pc = "done", !.result = create(unit.ans, userData)]
  /\ UNCHANGED <<store, now, reqs>>

MapToDomainReturns ==
  /\ unit.op = "mapToDomain" /\ unit.pc = "called"
  /\ unit' = [unit EXCEPT !.pc = "done",
                          !.result = Return(mapToDomain(unit.ans.data), <<>>)]
  /\ UNCHANGED <<store, now, reqs>>

RepoNext ==
  \/ FindByIdReturns
  \/ FindByEmailReturns
  \/ CreateReturns
  \/ MapToDomainReturns

RepoSpec == RepoInit /\ [][RepoNext]_vars

(***************************************************************************)
(* getSupabaseClient: the module variable supabaseInstance and the calls   *)
(* made in one process.                                                    *)
(***************************************************************************)
\* config.supabase as the module finds it
SupabaseConfigs ==
  [url : {Str("https://p.supabase.co"), Str(""), Undefined},
   anonKey : {Str("anon-key"), Str("")}]

\* createClient(url, key, options): a new client, or an exception
CreateClient(n) ==
  {Return([client |-> n + 1], <<>>),
   Throw(Error("supabaseUrl is required."), <<>>),
   Throw([Error("Invalid URL") EXCEPT !.name = "TypeError"], <<>>)}

\* Mutant: the cached instance is not looked at.
getSupabaseClient_noCache(supabaseInstance, config, made) ==
  IF ~Truthy(config.url) \/ ~Truthy(config.anonKey)
  THEN [supabaseInstance |-> supabaseInstance, attempted |-> FALSE,
        outcome |-> Throw(Error("Supabase URL or Anon Key is missing in configuration."),
                          <<>>)]
  ELSE IF made.tag = "throw"
  THEN [supabaseInstance |-> supabaseInstance, attempted |-> TRUE,
        outcome |-> Throw(made.err, <<>>)]
  ELSE [supabaseInstance |-> made.val, attempted |-> TRUE,
        outcome |-> Return(made.val, <<>>)]

\* One call; made: what createClient does if it is called. Gives the module
\* variable after the call, whether createClient was called, and the outcome.
getSupabaseClient(supabaseInstance, config, made) ==
  IF supabaseInstance # Null
  THEN [supabaseInstance |-> supabaseInstance, attempted |-> FALSE,
        outcome |-> Return(supabaseInstance, <<>>)]
  ELSE IF ~Truthy(config.url) \/ ~Truthy(config.anonKey)
  THEN [supabaseInstance |-> Null, attempted |-> FALSE,
        outcome |-> Throw(Error("Supabase URL or Anon Key is missing in configuration."),
                          <<>>)]
  ELSE IF made.tag = "throw"
  THEN [supabaseInstance |-> Null, attempted |-> TRUE, outcome |-> Throw(made.err, <<>>)]
  ELSE [supabaseInstance |-> made.val, attempted |-> TRUE,
        outcome |-> Return(made.val, <<>>)]

\* constructed: clients createClient has returned; attempts: calls of
\* createClient; calls: the outcome of every getSupabaseClient call so far
ClientInit ==
  /\ store = {}
  /\ now = 0
  /\ reqs = [r \in Requests |-> IdleRequest]
  /\ unit \in [op : {"getSupabaseClient"}, config : SupabaseConfigs,
                supabaseInstance : {Null}, constructed : {0}, attempts : {0},
                calls : {<<>>}]

GetSupabaseClientCalled ==
  /\ unit.op = "getSupabaseClient"
  /\ Len(unit.calls) < MaxCalls
  /\ \E made \in CreateClient(unit.constructed) :
       LET call == getSupabaseClient(unit.supabaseInstance, unit.config, made)
       IN unit' = [unit EXCEPT
            !.supabaseInstance = call.supabaseInstance,
            !.attempts = IF call.attempted THEN @ + 1 ELSE @,
            !.constructed = IF call.attempted /\ made.tag = "return" THEN @ + 1 ELSE @,
            !.calls = Append(@, call.outcome)]
  /\ UNCHANGED <<store, now, reqs>>

ClientNext == GetSupabaseClientCalled

ClientSpec == ClientInit /\ [][ClientNext]_vars

(***************************************************************************)
(* The process: startServer builds the app (plugins, then the routes),     *)
(* listens, installs the shutdown handlers; signals arrive; close settles. *)
(* events is the order in which things happened.                           *)
(***************************************************************************)
Environments == {"development", "production", "test"}
Signals == {"SIGINT", "SIGTERM"}

\* The server instance before any plugin has run
Fastify == [supabase |-> Undefined, userRepository |-> Undefined,
            userService |-> Undefined, userHandler |-> Undefined]

\* supabasePlugin: gets the client and decorates the server with it
supabasePlugin(app, config, made) ==
  LET call == getSupabaseClient(Null, config, made)
  IN IF call.outcome.tag = "throw"
     THEN [ok |-> FALSE, app |-> app,
           events |-> <<"log.error: Failed to initialize or decorate Supabase client">>]
     ELSE [ok |-> TRUE, app |-> [app EXCEPT !.supabase = call.outcome.val],
           events |-> <<"decorate supabase">>]

\* Mutant: the routes are registered before the instances they use are built.
userRoutes_routesFirst(app) ==
  LET userRepository == SupabaseUserRepository_new(app.supabase)
      userService == UserService_new(userRepository)
      userHandler == UserHandler_new(userService)
  IN [app |-> [app EXCEPT !.userRepository = userRepository,
                          !.userService = userService,
                          !.userHandler = userHandler],
      events |-> <<"route POST /", "route GET /:userId", "new SupabaseUserRepository",
                   "new UserService", "new UserHandler">>]

\* userRoutes: repository, service, handler, then the two routes
userRoutes(app) ==
  LET userRepository == SupabaseUserRepository_new(app.supabase)
      userService == UserService_new(userRepository)
      userHandler == UserHandler_new(userService)
  IN [app |-> [app EXCEPT !.userRepository = userRepository,
                          !.userService = userService,
                          !.userHandler = userHandler],
      events |-> <<"new SupabaseUserRepository", "new UserService", "new UserHandler",
                   "route POST /", "route GET /:userId">>]

\* buildApp; fails: the plugin whose registration rejects ("none": none does)
buildApp(env, config, made, fails) ==
  LET app0 == Fastify
      sensibleOk == fails # "sensible"
      sb == supabasePlugin(app0, config, made)
      swaggerRuns == env # "production"
      swaggerOk == ~(swaggerRuns /\ fails = "swagger")
      routes == userRoutes(sb.app)
  IN IF ~sensibleOk
     THEN [ok |-> FALSE, app |-> app0, events |-> <<>>]
     ELSE IF ~sb.ok
     THEN [ok |-> FALSE, app |-> sb.app, events |-> <<"register sensible">> \o sb.events]
     ELSE IF ~swaggerOk
     THEN [ok |-> FALSE, app |-> sb.app,
           events |-> <<"register sensible">> \o sb.events]
     ELSE [ok |-> TRUE, app |-> routes.app,
           events |-> <<"register sensible">> \o sb.events
                      \o (IF swaggerRuns THEN <<"register swagger">> ELSE <<>>)
                      \o routes.events \o <<"route GET /health">>]

\* Mutant: the shutdown handlers are installed before the server listens.
startServer_listen_handlersFirst(proc, listened) ==
  IF listened
  THEN [proc EXCEPT !.pc = "serving", !.handlers = Signals,
                    !.events = @ \o <<"on SIGINT", "on SIGTERM", "listen">>]
  ELSE [proc EXCEPT !.pc = "exited", !.exitCode = 1, !.handlers = Signals,
                    !.events = @ \o <<"on SIGINT", "on SIGTERM", "listen failed",
                                      "log.error: Server failed to start", "exit 1">>]

\* startServer after listen has settled: setupGracefulShutdown, or the catch
startServer_listen(proc, listened) ==
  IF listened
  THEN [proc EXCEPT !.pc = "serving", !.handlers = Signals,
                    !.events = @ \o <<"listen", "on SIGINT", "on SIGTERM">>]
  ELSE [proc EXCEPT !.pc = "exited", !.exitCode = 1,
                    !.events = @ \o <<"listen failed",
                                      "log.error: Server failed to start", "exit 1">>]

\* Mutant: a signal starts a shutdown also while one is in progress.
shutdown_noFlag(proc, signal) ==
  [proc EXCEPT !.shuttingDown = TRUE, !.pc = "closing", !.closeCalls = @ + 1,
               !.events = @ \o <<"signal " \o signal, "close">>]

\* shutdown(signal), up to its await of app.close()
shutdown(proc, signal) ==
  IF proc.shuttingDown
  THEN [proc EXCEPT !.events = Append(@, "signal " \o signal)]
  ELSE [proc EXCEPT !.shuttingDown = TRUE, !.pc = "closing", !.closeCalls = @ + 1,
                    !.events = @ \o <<"signal " \o signal, "close">>]

\* shutdown after app.close() has settled
shutdown_closed(proc, closed) ==
  IF closed
  THEN [proc EXCEPT !.pc = "exited", !.exitCode = 0,
                    !.events = @ \o <<"closed", "exit 0">>]
  ELSE [proc EXCEPT !.pc = "exited", !.exitCode = 1,
                    !.events = @ \o <<"close failed", "exit 1">>]

NotExited == -1

ServerInit ==
  /\ store = {}
  /\ now = 0
  /\ reqs = [r \in Requests |-> IdleRequest]
  /\ unit \in [op : {"startServer"}, pc : {"start"}, env : Environments,
                config : SupabaseConfigs, app : {Fastify}, handlers : {{}},
                shuttingDown : {FALSE}, closeCalls : {0}, signals : {0},
                exitCode : {NotExited}, events : {<<>>}]

\* startServer up to the end of buildApp
BuildApp ==
  /\ unit.op = "startServer" /\ unit.pc = "start"
  /\ \E made \in CreateClient(0), fails \in {"none", "sensible", "swagger"} :
       LET built == buildApp(unit.env, unit.config, made, fails)
       IN unit' = IF built.ok
                  THEN [unit EXCEPT !.pc = "listening", !.app = built.app,
                                    !.events = @ \o built.events]
                  ELSE [unit EXCEPT !.pc = "exited", !.exitCode = 1, !.app = built.app,
                                    !.events = @ \o built.events
                                       \o <<"buildApp failed",
                                            "console.error: Server failed to start",
                                            "exit 1">>]
  /\ UNCHANGED <<store, now, reqs>>

\* app.listen settles
Listen ==
  /\ unit.op = "startServer" /\ unit.pc = "listening"
  /\ \E listened \in BOOLEAN : unit' = startServer_listen(unit, listened)
  /\ UNCHANGED <<store, now, reqs>>

\* A termination signal arrives: the installed handler runs, or (none being
\* installed) the signal ends the process.
SignalArrives(signal) ==
  /\ unit.op = "startServer" /\ unit.pc # "exited"
  /\ unit.signals < MaxSignals
  /\ unit' = IF signal \in unit.handlers
              THEN [shutdown(unit, signal) EXCEPT !.signals = @ + 1]
              ELSE [unit EXCEPT !.signals = @ + 1, !.pc = "exited",
                                !.events = Append(@, "killed by " \o signal)]
  /\ UNCHANGED <<store, now, reqs>>

\* app.close() settles
CloseSettles ==
  /\ unit.op = "startServer" /\ unit.pc = "closing"
  /\ \E closed \in BOOLEAN : unit' = shutdown_closed(unit, closed)
  /\ UNCHANGED <<store, now, reqs>>

ServerNext ==
  \/ BuildApp
  \/ Listen
  \/ \E signal \in Signals : SignalArrives(signal)
  \/ CloseSettles

ServerSpec == ServerInit /\ [][ServerNext]_vars

(***************************************************************************)
(* The module generator (scripts/generate-module.mjs): one run makes seven *)
(* createDirAndFile calls; the file system is kept in the unit.            *)
(***************************************************************************)
\* The names derived from --name=products and --name=category
DerivedNames ==
  {[singularLower |-> "product", pascal |-> "Product", pluralLower |-> "products"],
   [singularLower |-> "category", pascal |-> "Category", pluralLower |-> "categories"]}

paths(names) ==
  [domain |-> "src/domain",
   interface |-> "src/application/interfaces",
   service |-> "src/application/services",
   repository |-> "src/infrastructure/database",
   route |-> "src/infrastructure/web/routes/" \o names.pluralLower]

\* The text of a template, told apart by its key and the names it was filled with
templates(names, key) == "templates." \o key \o " of " \o names.pascal

join(dirPath, fileName) == dirPath \o "/" \o fileName

\* The seven createDirAndFile calls of a run, in the order of the script
Calls(names) ==
  <<[dirPath |-> paths(names).domain, fileName |-> names.singularLower \o ".ts",
     content |-> templates(names, "domain")],
    [dirPath |-> paths(names).interface, fileName |-> "I" \o names.pascal \o "Repository.ts",
     content |-> templates(names, "interface")],
    [dirPath |-> paths(names).service, fileName |-> names.pascal \o "Service.ts",
     content |-> templates(names, "service")],
    [dirPath |-> paths(names).repository,
     fileName |-> "Supabase" \o names.pascal \o "Repository.ts",
     content |-> templates(names, "repository")],
    [dirPath |-> paths(names).route, fileName |-> names.singularLower \o ".schema.ts",
     content |-> templates(names, "schema")],
    [dirPath |-> paths(names).route, fileName |-> names.singularLower \o ".handler.ts",
     content |-> templates(names, "handler")],
    [dirPath |-> paths(names).route, fileName |-> "index.ts",
     content |-> templates(names, "route")]>>

TargetPaths(names) ==
  {join(Calls(names)[i].dirPath, Calls(names)[i].fileName) : i \in 1..Len(Calls(names))}

\* A path of the file system: nothing there, or a file with its content
NoFile == [exists |-> FALSE, content |-> ""]
File(content) == [exists |-> TRUE, content |-> content]

\* What mkdirSync and writeFileSync can do: both succeed, mkdirSync throws,
\* writeFileSync throws before the file is created, or after it was
\* created and before anything was written.
WriteOutcomes == {"written", "mkdir throws", "open throws", "write throws"}

\* Mutant: the file is written whether it exists or not.
createDirAndFile_overwrites(files, dirPath, fileName, content, outcome) ==
  LET fullPath == join(dirPath, fileName)
  IN IF outcome = "written"
     THEN [files |-> [files EXCEPT ![fullPath] = File(content)], console |-> "log: Created"]
     ELSE IF outcome = "write throws"
     THEN [files |-> [files EXCEPT ![fullPath] = File("")],
           console |-> "error: Error creating file"]
     ELSE [files |-> files, console |-> "error: Error creating file"]

createDirAndFile(files, dirPath, fileName, content, outcome) ==
  LET fullPath == join(dirPath, fileName)
  IN IF files[fullPath].exists
     THEN [files |-> files, console |-> "warn: File already exists (Skipping)"]
     ELSE IF outcome = "written"
     THEN [files |-> [files EXCEPT ![fullPath] = File(content)], console |-> "log: Created"]
     ELSE IF outcome = "write throws"
     THEN [files |-> [files EXCEPT ![fullPath] = File("")],
           console |-> "error: Error creating file"]
     ELSE [files |-> files, console |-> "error: Error creating file"]

\* The script has derived the names and filled the templates; a run starts
\* with any of the target files already there, written by hand
GeneratorInit ==
  /\ store = {}
  /\ now = 0
  /\ reqs = [r \in Requests |-> IdleRequest]
  /\ \E names \in DerivedNames :
       \E files \in [TargetPaths(names) -> {NoFile, File("written by hand")}] :
         unit = [op |-> "generate-module", calls |-> Calls(names), run |-> 1, call |-> 1,
                 files |-> files, before |-> files, initial |-> files,
                 throws |-> 0, console |-> ""]

\* The next createDirAndFile call of the run
CreateDirAndFile ==
  /\ unit.op = "generate-module"
  /\ unit.call <= Len(unit.calls)
  /\ LET c == unit.calls[unit.call]
     IN \E outcome \in WriteOutcomes :
          LET made == createDirAndFile(unit.files, c.dirPath, c.fileName, c.content, outcome)
              thrown == IF made.console = "error: Error creating file" THEN 1 ELSE 0
          IN /\ unit.throws + thrown <= MaxThrows
             /\ unit' = [unit EXCEPT !.call = @ + 1, !.files = made.files,
                                     !.console = made.console, !.throws = @ + thrown]
  /\ UNCHANGED <<store, now, reqs>>

\* The script is run again with the same name
RunAgain ==
  /\ unit.op = "generate-module"
  /\ unit.call > Len(unit.calls)
  /\ unit.run < MaxRuns
  /\ unit' = [unit EXCEPT !.run = @ + 1, !.call = 1, !.before = unit.files,
                          !.console = ""]
  /\ UNCHANGED <<store, now, reqs>>

GeneratorNext == CreateDirAndFile \/ RunAgain

GeneratorSpec == GeneratorInit /\ [][GeneratorNext]_vars

(***************************************************************************)
(* Properties                                                              *)
(***************************************************************************)
IsPost(r) == reqs[r].kind = "POST"
IsGet(r) == reqs[r].kind = "GET"
Done(r) == reqs[r].pc = "done"
Failed(r, name, code) ==
  /\ reqs[r].svc.tag = "throw"
  /\ reqs[r].svc.err.name = name
  /\ reqs[r].svc.err.code = code

\* The store's answer to the insert of request r (its second store call)
InsertAnswer(r) == reqs[r].answers[2]
Inserted(r) == Len(reqs[r].answers) = 2 /\ InsertAnswer(r).stored # {}

\* The fixed strings of the handler's 500 replies
GenericCreateMessages ==
  {"A database error occurred while creating the user.",
   "An unexpected error occurred while creating the user."}
GenericFetchMessages ==
  {"A database error occurred while fetching the user.",
   "An unexpected error occurred while fetching the user."}

\* The texts a storage error carries
StorageTexts(err) ==
  {err.message} \cup (IF err.originalError = NoPgError THEN {}
                      ELSE {err.originalError.message, err.originalError.code})

\* C1: when the pre-check of a createUser call finds a stored user with the
\* email, the call fails with an ApplicationError of code 409, repository.create
\* is not invoked for it (then or later), and the store is left unchanged.
C1_ConflictWithoutInsert ==
  [][\A r \in Requests :
       /\ (reqs[r].pc = "findByEmail" /\ reqs'[r].found.tag = "return"
           /\ reqs'[r].found.val # Null)
          => /\ reqs'[r].pc = "done"
             /\ reqs'[r].svc.tag = "throw"
             /\ reqs'[r].svc.err.name = "ApplicationError"
             /\ reqs'[r].svc.err.code = 409
             /\ "create" \notin reqs'[r].repoCalls
             /\ store' = store
       /\ (reqs[r].pc = "done" => reqs'[r] = reqs[r])]_vars

C1_Witness ==
  \E r \in Requests :
    /\ IsPost(r) /\ Done(r)
    /\ reqs[r].found.tag = "return" /\ reqs[r].found.val # Null
    /\ Failed(r, "ApplicationError", 409)

\* C2: in every reachable state the store holds at most one user per email,
\* and of the create requests carrying one email at most one is answered 201.
C2_OneUserPerEmail ==
  /\ \A x, y \in store : x.email = y.email => x = y
  /\ \A r1, r2 \in Requests :
       (/\ r1 # r2 /\ IsPost(r1) /\ IsPost(r2)
        /\ reqs[r1].body.email = reqs[r2].body.email
        /\ reqs[r1].resp.status = 201)
       => reqs[r2].resp.status # 201

\* Two creates for one email that both passed the pre-check and both settled
C2_Witness ==
  \E r1, r2 \in Requests :
    /\ r1 # r2 /\ IsPost(r1) /\ IsPost(r2) /\ Done(r1) /\ Done(r2)
    /\ reqs[r1].body.email = reqs[r2].body.email
    /\ Len(reqs[r1].answers) = 2 /\ Len(reqs[r2].answers) = 2
    /\ reqs[r1].resp.status = 201

\* The create requests for email e whose pre-check found no user
PassedPreCheck(e) ==
  {r \in Requests : /\ IsPost(r) /\ reqs[r].body.email = e
                    /\ reqs[r].found.tag = "return" /\ reqs[r].found.val = Null}

\* The insert of r failed for a reason other than the unique constraint
OtherStoreFailure(r) ==
  ~(\/ InsertAnswer(r).error = UniqueViolation
    \/ (InsertAnswer(r).error = NoPgError /\ InsertAnswer(r).data # Null))

Racing(e) ==
  /\ Cardinality(PassedPreCheck(e)) >= 2
  /\ \A r \in PassedPreCheck(e) : Done(r) /\ ~OtherStoreFailure(r)

\* C3: when concurrent create requests for one email have all passed the
\* pre-check and the store answered each insert (no failure other than the
\* unique constraint), exactly one insert succeeded and is answered 201, and
\* every other one was rejected by the unique constraint; a rejected create
\* is answered 500 with one of the handler's fixed messages, also when the
\* repository has detected the conflict signal.
C3_RaceOneWinner ==
  /\ \A e \in Emails :
       Racing(e) =>
         \E w \in PassedPreCheck(e) :
           /\ Inserted(w) /\ reqs[w].resp.status = 201
           /\ \A l \in PassedPreCheck(e) \ {w} :
                /\ ~Inserted(l)
                /\ InsertAnswer(l).error = UniqueViolation
                /\ reqs[l].created.err.originalError = UniqueViolation
  /\ \A r \in Requests :
       (IsPost(r) /\ Done(r) /\ reqs[r].created.tag = "throw")
       => /\ reqs[r].resp.status = 500
          /\ reqs[r].resp.message \in GenericCreateMessages
          /\ reqs[r].resp.message \notin StorageTexts(reqs[r].created.err)

C3_Witness == \E e \in Emails : Racing(e)

\* An identifier that fails the format precondition: not a string, or empty
BadIdFormat(id) == id.t # "string" \/ id.v = ""

\* C4: for every id that fails the format precondition (empty, missing, not
\* a string) getUserById fails with an ApplicationError of code 400 and
\* repository.findById is not called for the request.
C4_BadIdRejected ==
  \A r \in Requests :
    (IsGet(r) /\ BadIdFormat(reqs[r].userId))
    => /\ Done(r)
       /\ Failed(r, "ApplicationError", 400)
       /\ "findById" \notin reqs[r].repoCalls
       /\ reqs[r].answers = <<>>

C4_Witness ==
  /\ \E r \in Requests : IsGet(r) /\ Done(r) /\ reqs[r].userId.t # "string"
                         /\ Truthy(reqs[r].userId)
  /\ \E r \in Requests : IsGet(r) /\ Done(r) /\ reqs[r].userId = Str("")

\* C5: for a well-formed id with no row in the store, when the store answers
\* the lookup without an error, getUserById returns absent (no error is
\* raised) and the GET handler answers 404.
C5_AbsentIs404 ==
  [][\A r \in Requests :
       (/\ reqs[r].pc = "findById" /\ reqs'[r].pc = "done"
        /\ ~BadIdFormat(reqs[r].userId)
        /\ \A row \in store : row.id # reqs[r].userId.v
        /\ reqs'[r].answers[1].error = NoPgError)
       => /\ reqs'[r].svc.tag = "return"
          /\ reqs'[r].svc.val = Null
          /\ reqs'[r].resp.status = 404
          /\ reqs'[r].resp.error = "Not Found"]_vars

C5_Witness ==
  \E r \in Requests :
    /\ IsGet(r) /\ Done(r) /\ ~BadIdFormat(reqs[r].userId)
    /\ reqs[r].answers[1].error = NoPgError
    /\ \A row \in store : row.id # reqs[r].userId.v
    /\ reqs[r].resp.status = 404

\* C6: once create has returned an entity, every later getUserById with that
\* entity's id that the store answers without an error returns an entity with
\* the same value in every field, and the read leaves the store unchanged (so
\* a repeated read returns the same again).
C6_RoundTrip ==
  [][\A g, c \in Requests :
       (/\ reqs[g].pc = "findById" /\ reqs'[g].pc = "done"
        /\ reqs'[g].answers[1].error = NoPgError
        /\ IsPost(c) /\ Done(c) /\ reqs[c].svc.tag = "return"
        /\ reqs[g].userId = Str(reqs[c].svc.val.id))
       => /\ reqs'[g].svc.tag = "return"
          /\ reqs'[g].svc.val = reqs[c].svc.val
          /\ store' = store]_vars

\* A read of a created entity, of an entity created after the clock moved
C6_Witness ==
  \E g, c \in Requests :
    /\ IsPost(c) /\ Done(c) /\ reqs[c].svc.tag = "return"
    /\ IsGet(g) /\ Done(g) /\ reqs[g].userId = Str(reqs[c].svc.val.id)
    /\ reqs[g].svc.tag = "return" /\ reqs[g].svc.val = reqs[c].svc.val
    /\ \E row \in store : row.id = reqs[c].svc.val.id /\ row.created_at > 0

\* C7: when the store holds no user with the email and executes the insert
\* without a failure, createUser returns an entity whose id is not empty and
\* is the id of no entity already in the store, and whose created_at and
\* updated_at are not earlier than the time of the call.
C7_FreshEntity ==
  [][\A r \in Requests :
       (/\ reqs[r].pc = "create" /\ reqs'[r].pc = "done"
        /\ \A row \in store : row.email # reqs[r].body.email
        /\ reqs'[r].answers[2].error = NoPgError
        /\ reqs'[r].answers[2].data # Null)
       => /\ reqs'[r].svc.tag = "return"
          /\ reqs'[r].svc.val # Null
          /\ reqs'[r].svc.val.id # ""
          /\ \A row \in store : row.id # reqs'[r].svc.val.id
          /\ reqs'[r].svc.val.email = reqs[r].body.email
          /\ reqs'[r].svc.val.created_at >= DateOf(reqs[r].callTime)
          /\ reqs'[r].svc.val.updated_at >= DateOf(reqs[r].callTime)]_vars

\* A create that returned an entity, called after the first millisecond, into
\* a store that already held a user
C7_Witness ==
  \E r \in Requests :
    /\ IsPost(r) /\ Done(r) /\ reqs[r].svc.tag = "return"
    /\ DateOf(reqs[r].callTime) > 0
    /\ Cardinality(store) >= 2

\* C8 as stated: every error the service raises to the handler is an
\* ApplicationError (no DatabaseError leaves the service unwrapped).
C8_NeverUnwrapped ==
  \A r \in Requests :
    (Done(r) /\ reqs[r].svc.tag = "throw") => reqs[r].svc.err.name = "ApplicationError"

\* C8 amended: a DatabaseError raised by repository.create leaves the service
\* wrapped in an ApplicationError of code 500; one raised by findById or
\* findByEmail leaves the service as it is, and nothing but an
\* ApplicationError or such a DatabaseError is raised to the handler, which
\* answers the DatabaseError with 500 and a fixed message.
C8_WrappedOnlyOnCreate ==
  \A r \in Requests :
    Done(r) =>
      /\ reqs[r].created.tag = "throw" => Failed(r, "ApplicationError", 500)
      /\ reqs[r].found.tag = "throw"
         => /\ reqs[r].found.err.name = "DatabaseError"
            /\ reqs[r].svc.tag = "throw"
            /\ reqs[r].svc.err = reqs[r].found.err
            /\ reqs[r].resp.status = 500
            /\ reqs[r].resp.message
                 \in {"A database error occurred while creating the user.",
                      "A database error occurred while fetching the user."}
      /\ (reqs[r].svc.tag = "throw" /\ reqs[r].svc.err.name # "ApplicationError")
         => reqs[r].found.tag = "throw"

\* A failed lookup and a failed insert, both settled
C8_Witness ==
  /\ \E r \in Requests : Done(r) /\ reqs[r].found.tag = "throw"
  /\ \E r \in Requests : Done(r) /\ reqs[r].created.tag = "throw"

\* C9: when the pre-check finds no user and repository.create fails with a
\* DatabaseError, createUser fails with an ApplicationError of code 500 whose
\* message is the service's fixed text and carries nothing of the storage
\* error; the storage error is written to the log.
C9_CreateFailureIsGeneric500 ==
  \A r \in Requests :
    (/\ IsPost(r) /\ Done(r)
     /\ reqs[r].found.tag = "return" /\ reqs[r].found.val = Null
     /\ reqs[r].created.tag = "throw")
    => /\ reqs[r].created.err.name = "DatabaseError"
       /\ Failed(r, "ApplicationError", 500)
       /\ reqs[r].svc.err.message = "Failed to create user due to a database issue."
       /\ reqs[r].svc.err.message \notin StorageTexts(reqs[r].created.err)
       /\ reqs[r].svc.err.originalError = NoPgError
       /\ \E i \in 1..Len(reqs[r].log) :
            /\ reqs[r].log[i].via = "console.error"
            /\ reqs[r].log[i].err = reqs[r].created.err

\* A create rejected by the unique constraint after its pre-check found no user
C9_Witness ==
  \E r \in Requests :
    /\ IsPost(r) /\ Done(r) /\ reqs[r].found.val = Null
    /\ reqs[r].created.tag = "throw"
    /\ reqs[r].created.err.originalError = UniqueViolation
    /\ Failed(r, "ApplicationError", 500)

Handler(op) == unit.op = op /\ unit.pc = "done"
AnyHandler == Handler("UserHandler.createUser") \/ Handler("UserHandler.getUserById")

\* The errors both handlers pass on to the client with their own status
ClientError(err) == err.name = "ApplicationError" /\ err.code \in {400, 409}

\* C11: in both handlers, whenever the service call has failed with an
\* ApplicationError of a code other than 400 and 409, with a DatabaseError or
\* with any other exception, the response has status 500 and one of the
\* handler's fixed messages, never the message of the error caught.
C11_OtherFailuresAreGeneric500 ==
  (AnyHandler /\ unit.svc.tag = "throw" /\ ~ClientError(unit.svc.err))
  => /\ unit.handled.resp.status = 500
     /\ unit.handled.resp.error = "Internal Server Error"
     /\ unit.handled.resp.message
          \in (IF unit.op = "UserHandler.createUser" THEN GenericCreateMessages
               ELSE GenericFetchMessages)
     /\ unit.handled.resp.message \notin StorageTexts(unit.svc.err)

\* The read handler has answered an exception that is neither an
\* ApplicationError nor a DatabaseError
C11_Witness ==
  /\ Handler("UserHandler.getUserById")
  /\ unit.svc.tag = "throw" /\ unit.svc.err.name = "TypeError"
  /\ unit.handled.resp.status = 500

\* Request r was answered by a handler of the user routes
ByUserHandler(r) == Done(r) /\ reqs[r].handler \in {"createUser", "getUserById"}

\* The input that triggered request r: the body of a POST, the params of a GET
TriggeringInput(r) == IF IsPost(r) THEN reqs[r].body ELSE reqs[r].userId

\* The log of r has an error entry with the error caught and the input, and
\* the reply comes after it.
ErrorLoggedBeforeReply(r) ==
  \E i, j \in 1..Len(reqs[r].log) :
    /\ i < j
    /\ reqs[r].log[i].via = "request.log.error"
    /\ reqs[r].log[i].err = reqs[r].svc.err
    /\ reqs[r].log[i].input = TriggeringInput(r)
    /\ reqs[r].log[j].via = "reply"

NoErrorLogged(r) ==
  \A i \in 1..Len(reqs[r].log) : reqs[r].log[i].via # "request.log.error"

\* C12 as stated: every request a handler answers with a status outside 2xx
\* has an error log entry, with the error and the input, before the reply.
C12_EveryNon2xxLogged ==
  \A r \in Requests :
    (ByUserHandler(r) /\ reqs[r].resp.status \notin 200..299)
    => ErrorLoggedBeforeReply(r)

\* C12 amended: every request whose service call raised an error has an error
\* log entry with that error and the input (body or params) before its one
\* reply; the 404 of an absent user is sent with no error log entry.
C12_CaughtErrorsLogged ==
  \A r \in Requests :
    ByUserHandler(r) =>
      /\ reqs[r].svc.tag = "throw"
         => /\ reqs[r].resp.status \notin 200..299
            /\ ErrorLoggedBeforeReply(r)
            /\ reqs[r].log[Len(reqs[r].log)].via = "reply"
      /\ reqs[r].svc.tag = "return"
         => /\ NoErrorLogged(r)
            /\ reqs[r].resp.status \notin 200..299
               <=> (IsGet(r) /\ reqs[r].svc.val = Null /\ reqs[r].resp.status = 404)

\* A failed create with its log entry, and an absent user answered 404
C12_Witness ==
  /\ \E r \in Requests : /\ IsPost(r) /\ ByUserHandler(r)
                         /\ reqs[r].svc.tag = "throw" /\ ErrorLoggedBeforeReply(r)
  /\ \E r \in Requests : IsGet(r) /\ ByUserHandler(r) /\ reqs[r].resp.status = 404

\* Request r fails the request schema of its route: a POST body without
\* an email, a GET whose userId is not a uuid string
FailsRequestSchema(r) ==
  \/ IsPost(r) /\ ~createUserRouteBody(reqs[r].body)
  \/ IsGet(r) /\ ~userIdParamsJsonSchema(reqs[r].userId)

\* C13: on both user routes the request schema is validated before the
\* handler runs: a request whose body or path parameter fails the schema
\* never reaches the handler (nor the service or the store) and is answered
\* by the transport with a 4xx status.
C13_InvalidNeverReachesHandler ==
  \A r \in Requests :
    FailsRequestSchema(r)
    => /\ Done(r)
       /\ reqs[r].handler = "none"
       /\ reqs[r].svc = NoOutcome
       /\ reqs[r].repoCalls = {}
       /\ reqs[r].resp.status \in 400..499

\* C14: whatever the request and whatever the service and the store answer,
\* POST / is answered with a status in {201, 400, 409, 500} and GET /:userId
\* with a status in {200, 400, 404, 500}.
C14_StatusCodes ==
  \A r \in Requests :
    Done(r) =>
      /\ IsPost(r) => reqs[r].resp.status \in {201, 400, 409, 500}
      /\ IsGet(r) => reqs[r].resp.status \in {200, 400, 404, 500}

\* A create answered 201 and a read answered 500
C14_Witness ==
  /\ \E r \in Requests : IsPost(r) /\ Done(r) /\ reqs[r].resp.status = 201
  /\ \E r \in Requests : IsGet(r) /\ Done(r) /\ reqs[r].resp.status = 500

\* Request r was answered by application code with a status outside 2xx
AppFailure(r) ==
  Done(r) /\ reqs[r].handler # "none" /\ reqs[r].resp.status \notin 200..299

WireBody(r) == JsonBody(reqs[r].kind, reqs[r].resp)

PgTexts(error) == IF error = NoPgError THEN {} ELSE {error.message, error.code}

\* What is internal to request r: the texts of the store's errors and of
\* the errors raised on them
InternalTexts(r) ==
  UNION {PgTexts(reqs[r].answers[i].error) : i \in 1..Len(reqs[r].answers)}
  \cup (IF reqs[r].found.tag = "throw" THEN {reqs[r].found.err.message} ELSE {})
  \cup (IF reqs[r].created.tag = "throw" THEN {reqs[r].created.err.message} ELSE {})
  \cup (IF reqs[r].kind = "HEALTH"
        THEN {reqs[r].log[i].err.message :
                i \in {j \in 1..Len(reqs[r].log) : reqs[r].log[j].via = "request.log.error"}}
        ELSE {})

\* The body of r's reply has no stack and none of the internal texts
NothingInternal(r) ==
  /\ "stack" \notin DOMAIN WireBody(r)
  /\ \A f \in (DOMAIN WireBody(r)) \ {"statusCode", "timestamp", "created_at"} :
       WireBody(r)[f] \notin InternalTexts(r)

\* C15 as stated: every reply outside 2xx that the application produces, on
\* the user routes and on the health endpoint, has a JSON body with the
\* fields statusCode, error and message, and nothing internal.
C15_StandardErrorBody ==
  \A r \in Requests :
    AppFailure(r)
    => /\ {"statusCode", "error", "message"} \subseteq DOMAIN WireBody(r)
       /\ NothingInternal(r)

\* C15 amended: a reply outside 2xx on the user routes has a JSON body of
\* exactly statusCode (the status), error and message; the 503 of the health
\* endpoint has a body of exactly status "error", message "Service
\* unavailable" and timestamp, with no statusCode; neither carries a stack or
\* a text of the store's error.
C15_ErrorBodies ==
  \A r \in Requests :
    AppFailure(r)
    => /\ NothingInternal(r)
       /\ reqs[r].kind \in {"POST", "GET"}
          => /\ DOMAIN WireBody(r) = {"statusCode", "error", "message"}
             /\ WireBody(r).statusCode = reqs[r].resp.status
             /\ WireBody(r).error # "" /\ WireBody(r).message # ""
       /\ reqs[r].kind = "HEALTH"
          => /\ reqs[r].resp.status = 503
             /\ DOMAIN WireBody(r) = {"status", "message", "timestamp"}
             /\ WireBody(r).status = "error"
             /\ WireBody(r).message = "Service unavailable"

\* A 503 of the health endpoint after the query returned an error, and a 500
\* of a user route after the store failed
C15_Witness ==
  /\ \E r \in Requests : /\ AppFailure(r) /\ reqs[r].kind = "HEALTH"
                         /\ reqs[r].answers[1].error # NoPgError
  /\ \E r \in Requests : /\ AppFailure(r) /\ reqs[r].kind \in {"POST", "GET"}
                         /\ reqs[r].found.tag = "throw"

IsHealth(r) == reqs[r].kind = "HEALTH"

\* The reachability query of r returned, and without an error
QueryOk(r) ==
  reqs[r].answers[1].thrown = NotThrown /\ reqs[r].answers[1].error = NoPgError

\* C16: GET /health is answered 200 with status "ok" and a timestamp exactly
\* when the reachability query returned without an error, and 503 with
\* status "error", a message and a timestamp whenever the query returned an
\* error or threw; it is answered once and with no other status.
C16_Health ==
  \A r \in Requests :
    (IsHealth(r) /\ Done(r))
    => /\ reqs[r].resp.status \in {200, 503}
       /\ reqs[r].replies = 1
       /\ QueryOk(r) <=> reqs[r].resp.status = 200
       /\ reqs[r].resp.status = 200
          => /\ DOMAIN WireBody(r) = {"status", "timestamp"}
             /\ WireBody(r).status = "ok"
       /\ ~QueryOk(r)
          => /\ reqs[r].resp.status = 503
             /\ DOMAIN WireBody(r) = {"status", "message", "timestamp"}
             /\ WireBody(r).status = "error"
             /\ WireBody(r).message = "Service unavailable"

\* One health check answered after the query returned an error, another
\* after it returned without one
C16_Witness ==
  /\ \E r \in Requests : /\ IsHealth(r) /\ Done(r)
                         /\ reqs[r].answers[1].error # NoPgError
                         /\ reqs[r].resp.status = 503
  /\ \E r \in Requests : IsHealth(r) /\ Done(r) /\ QueryOk(r)

\* What the handler of the unit does with another outcome of the service call
HandlerOn(svc) ==
  IF unit.op = "UserHandler.createUser"
  THEN UserHandler_createUser(unit.input, svc)
  ELSE UserHandler_getUserById(unit.input, svc)

\* The service call of the unit returned an entity
Succeeded == AnyHandler /\ unit.svc.tag = "return" /\ unit.svc.val # Null

\* C17: when the service call returns an entity, the create handler answers
\* 201 and the read handler 200; the body has no password field and no field
\* with the password's value, and the handler answers an entity that differs
\* in nothing but the password with the very same response.
C17_NoSecretInResponse ==
  Succeeded
  => /\ unit.handled.resp.status
          = (IF unit.op = "UserHandler.createUser" THEN 201 ELSE 200)
     /\ "password" \notin DOMAIN unit.handled.resp.body
     /\ \A f \in (DOMAIN unit.handled.resp.body) \ {"created_at"} :
          unit.handled.resp.body[f] # unit.svc.val.password
     /\ \A e \in Entities :
          [e EXCEPT !.password = unit.svc.val.password] = unit.svc.val
          => HandlerOn(Return(e, <<>>)) = unit.handled

\* The read handler has answered an entity of which the model has a twin
\* with another password
C17_Witness ==
  /\ Succeeded /\ unit.op = "UserHandler.getUserById"
  /\ unit.handled.resp.status = 200
  /\ \E e \in Entities : /\ e # unit.svc.val
                         /\ [e EXCEPT !.password = unit.svc.val.password] = unit.svc.val

\* The repository operation of the unit has settled
Repo(op) == unit.op = op /\ unit.pc = "done"

\* The kind of a storage error: the repository marks a unique violation by
\* its message and the store's code
StorageKind(err) ==
  IF /\ err.message = "Unique constraint violation (e.g., email already exists)"
     /\ PgCode(err.originalError) = "23505"
  THEN "UniqueViolation" ELSE "Unknown"

\* C18: create settles every answer of the store: it raises a DatabaseError
\* of kind UniqueViolation exactly when the store reports code 23505, one of
\* kind Unknown for every other store error and when no row and no error
\* came back, and returns an entity (the mapped row) only when the store
\* returned a row and no error.
C18_CreateClassifies ==
  Repo("create")
  => LET data == unit.ans.data
         error == unit.ans.error
         res == unit.result
     IN /\ res.tag \in {"return", "throw"}
        /\ res.tag = "throw" => res.err.name = "DatabaseError"
        /\ (res.tag = "throw" /\ StorageKind(res.err) = "UniqueViolation")
           <=> PgCode(error) = "23505"
        /\ (error # NoPgError /\ PgCode(error) # "23505")
           => (res.tag = "throw" /\ StorageKind(res.err) = "Unknown"
               /\ res.err.originalError = error)
        /\ (error = NoPgError /\ data = Null)
           => (res.tag = "throw" /\ StorageKind(res.err) = "Unknown")
        /\ res.tag = "return" <=> (data # Null /\ error = NoPgError)
        /\ res.tag = "return" => res.val = mapToDomain(data)

\* create has settled a unique violation that came together with a row
C18_Witness ==
  /\ Repo("create")
  /\ unit.ans.error = UniqueViolation /\ unit.ans.data # Null
  /\ unit.result.tag = "throw"

\* The lookup of the unit has settled
Lookup == Repo("findById") \/ Repo("findByEmail")

\* C19: findById and findByEmail return null, raising nothing, when the
\* store reports no row and no error, and raise a DatabaseError carrying the
\* store's error whenever the store reports an error, with or without data.
C19_LookupAbsentOrError ==
  Lookup
  => /\ (unit.ans.data = Null /\ unit.ans.error = NoPgError)
        => unit.result = Return(Null, <<>>)
     /\ unit.ans.error # NoPgError
        => /\ unit.result.tag = "throw"
           /\ unit.result.err.name = "DatabaseError"
           /\ unit.result.err.originalError = unit.ans.error
     /\ unit.result.tag = "throw" => unit.ans.error # NoPgError

\* findByEmail has settled an error that came together with a row
C19_Witness ==
  /\ Repo("findByEmail")
  /\ unit.ans.error # NoPgError /\ unit.ans.data # Null
  /\ unit.result.tag = "throw"

\* A row with every required column
WellFormed(row) ==
  /\ row.id # Missing /\ row.email # Missing
  /\ row.created_at # MissingTs /\ row.updated_at # MissingTs

\* C20: the mapping of a row to an entity returns an entity for every
\* well-formed row and raises an error for every row (not null) that lacks
\* id, email, created_at or updated_at; it returns no entity with a required
\* field missing or coerced.
C20_MalformedRowRejected ==
  (Repo("mapToDomain") /\ unit.ans.data # Null)
  => /\ WellFormed(unit.ans.data)
        => /\ unit.result.tag = "return"
           /\ unit.result.val.id = unit.ans.data.id
           /\ unit.result.val.email = unit.ans.data.email
           /\ unit.result.val.created_at = DateOf(unit.ans.data.created_at)
           /\ unit.result.val.updated_at = DateOf(unit.ans.data.updated_at)
     /\ ~WellFormed(unit.ans.data) => unit.result.tag = "throw"
     /\ unit.result.tag = "return"
        => /\ unit.result.val.id # Missing /\ unit.result.val.email # Missing
           /\ unit.result.val.created_at # InvalidDate
           /\ unit.result.val.updated_at # InvalidDate

\* The email of the scenario; no user has it when the process starts
ScenarioEmail == "c@d.com"

PostOf(r, email) ==
  reqs[r].kind = "POST" /\ reqs[r].body.email = email /\ reqs[r].pc = "done"
GetOf(r, userId) ==
  reqs[r].kind = "GET" /\ reqs[r].userId = userId /\ reqs[r].pc = "done"

\* The first two requests were creates for the scenario's email
TwoCreates == PostOf(1, ScenarioEmail) /\ PostOf(2, ScenarioEmail)
\* ... and the third a read of the id the first create returned
ThenReadCreated ==
  /\ TwoCreates /\ reqs[1].svc.tag = "return"
  /\ GetOf(3, Str(reqs[1].svc.val.id))
\* ... and the fourth a read of an id the store does not have
ThenReadAbsent ==
  /\ ThenReadCreated
  /\ \E id \in ScenarioIds : /\ GetOf(4, id)
                              /\ \A row \in store : row.id # id.v

\* C21: with no user for email E in the store and no store failure, the
\* requests POST E, POST E, GET of the id the first POST returned, GET of an
\* id not in the store, made in this order, are answered 201, 409, 200 and
\* 404; the 409 carries "User with this email already exists." and the 200
\* carries email E.
C21_Scenario ==
  /\ PostOf(1, ScenarioEmail)
     => /\ reqs[1].resp.status = 201
        /\ JsonBody("POST", reqs[1].resp).email = ScenarioEmail
  /\ TwoCreates
     => /\ reqs[2].resp.status = 409
        /\ JsonBody("POST", reqs[2].resp)
             = [statusCode |-> 409, error |-> "Conflict",
                message |-> "User with this email already exists."]
  /\ ThenReadCreated
     => /\ reqs[3].resp.status = 200
        /\ JsonBody("GET", reqs[3].resp).email = ScenarioEmail
        /\ JsonBody("GET", reqs[3].resp).id = JsonBody("POST", reqs[1].resp).id
  /\ ThenReadAbsent => reqs[4].resp.status = 404

\* The four requests of the scenario, all answered
C21_Witness ==
  /\ ThenReadAbsent
  /\ reqs[1].resp.status = 201 /\ reqs[2].resp.status = 409
  /\ reqs[3].resp.status = 200 /\ reqs[4].resp.status = 404

\* C22: every error the repository raises is a DatabaseError and every
\* ApplicationError is raised by the service, with code 400, 409 or 500; a
\* DatabaseError that reaches a handler is the one the repository raised; and
\* no body sent to a client, whatever the status, carries the message of a
\* DatabaseError or the message or code of the store's own error.
C22_ErrorsOwnedByLayer ==
  \A r \in Requests :
    /\ reqs[r].found.tag = "throw" => reqs[r].found.err.name = "DatabaseError"
    /\ reqs[r].created.tag = "throw" => reqs[r].created.err.name = "DatabaseError"
    /\ reqs[r].svc.tag = "throw"
       => /\ reqs[r].svc.err.name \in {"ApplicationError", "DatabaseError"}
          /\ reqs[r].svc.err.name = "ApplicationError"
             => /\ reqs[r].svc.err.code \in {400, 409, 500}
                /\ reqs[r].svc.err.originalError = NoPgError
          /\ reqs[r].svc.err.name = "DatabaseError"
             => (reqs[r].found.tag = "throw" /\ reqs[r].svc.err = reqs[r].found.err)
    /\ Done(r) => NothingInternal(r)

\* A create that failed on the insert and a health check that failed on the
\* query's error, both answered
C22_Witness ==
  /\ \E r \in Requests : /\ IsPost(r) /\ Done(r) /\ reqs[r].created.tag = "throw"
                         /\ Failed(r, "ApplicationError", 500)
  /\ \E r \in Requests : /\ IsHealth(r) /\ Done(r)
                         /\ reqs[r].answers[1].error # NoPgError

\* The configuration lacks the URL or the key
ConfigMissing(config) == ~Truthy(config.url) \/ ~Truthy(config.anonKey)

\* C23: after every getSupabaseClient call of a process, createClient has
\* returned a client at most once and every call that returned gave the same
\* instance, the cached one; a call made with the URL or the key missing, or
\* in which createClient throws, raises an error and leaves the cache unset,
\* and a call that finds the cache unset and the configuration complete
\* calls createClient (again), while one that finds it set does not.
C23_ClientConstructedOnce ==
  [][LET n == Len(unit'.calls)
         res == unit'.calls[n]
     IN /\ unit'.constructed <= 1
        /\ \A i, j \in 1..n :
             (unit'.calls[i].tag = "return" /\ unit'.calls[j].tag = "return")
             => unit'.calls[i].val = unit'.calls[j].val
        /\ res.tag = "return" => (res.val # Null /\ res.val = unit'.supabaseInstance)
        /\ (unit.supabaseInstance = Null /\ ConfigMissing(unit.config))
           => (res.tag = "throw" /\ unit'.attempts = unit.attempts)
        /\ res.tag = "throw"
           => /\ unit.supabaseInstance = Null /\ unit'.supabaseInstance = Null
              /\ unit'.constructed = unit.constructed
        /\ (unit.supabaseInstance = Null /\ ~ConfigMissing(unit.config))
           => unit'.attempts = unit.attempts + 1
        /\ unit.supabaseInstance # Null
           => (unit'.attempts = unit.attempts /\ res.tag = "return")]_vars

\* createClient threw, a later call constructed the client, and a call
\* after that returned it
C23_Witness ==
  /\ unit.op = "getSupabaseClient"
  /\ \E i, j, k \in 1..Len(unit.calls) :
       /\ i < j /\ j < k
       /\ unit.calls[i].tag = "throw"
       /\ unit.calls[j].tag = "return" /\ unit.calls[k].tag = "return"
  /\ unit.attempts >= 2 /\ unit.constructed = 1

\* The step is the settling of an insert of request r that returned a row
InsertStep(r) ==
  /\ reqs[r].pc = "create" /\ reqs'[r].pc = "done"
  /\ reqs'[r].answers[2].error = NoPgError
  /\ reqs'[r].answers[2].data # Null
  /\ store' = store \cup {reqs'[r].answers[2].data}

\* C24: no step of a request (create, read by id, health check), whatever
\* its outcome, changes a variable the requests share: the store client and
\* the repository, service and handler instances stay as they were built;
\* the step changes only its own request, and the store's contents change
\* only by the row of an insert that succeeded.
C24_NoSharedStateWritten ==
  [][/\ unit' = unit
     /\ unit = SharedInstances
     /\ store' # store => \E r \in Requests : InsertStep(r)
     /\ \A r1, r2 \in Requests :
          (reqs'[r1] # reqs[r1] /\ reqs'[r2] # reqs[r2]) => r1 = r2]_vars

\* A create that inserted, a read and a health check that failed, answered
C24_Witness ==
  /\ \E r \in Requests : IsPost(r) /\ Done(r) /\ Inserted(r)
  /\ \E r \in Requests : /\ Done(r) /\ reqs[r].kind \in {"GET", "HEALTH"}
                         /\ reqs[r].resp.status \in {500, 503}
  /\ unit = SharedInstances

\* The process of the unit; where and how often an event happened
IsServer == unit.op = "startServer"
Times(e) == Cardinality({i \in 1..Len(unit.events) : unit.events[i] = e})
Happened(e) == Times(e) > 0
Pos(e) == CHOOSE i \in 1..Len(unit.events) : unit.events[i] = e
Before(e1, e2) == Happened(e1) /\ Happened(e2) /\ Pos(e1) < Pos(e2)

Constructions == {"new SupabaseUserRepository", "new UserService", "new UserHandler"}
UserRouteEvents == {"route POST /", "route GET /:userId"}

\* C25: the registration of the user routes constructs one repository, then
\* one service, then one handler, each holding the stage built before it as
\* its only collaborator (the repository the decorated store client); both
\* routes are registered after the three exist, once each; and all of this
\* happens after the store-client plugin has decorated the server.
C25_WiringOrder ==
  IsServer
  => /\ \A e \in Constructions \cup UserRouteEvents : Times(e) <= 1
     /\ (\E e \in Constructions \cup UserRouteEvents : Happened(e))
        => /\ Before("decorate supabase", "new SupabaseUserRepository")
           /\ Before("new SupabaseUserRepository", "new UserService")
           /\ Before("new UserService", "new UserHandler")
           /\ Before("new UserHandler", "route POST /")
           /\ Before("new UserHandler", "route GET /:userId")
           /\ unit.app.supabase # Undefined
           /\ unit.app.userRepository.supabase = unit.app.supabase
           /\ unit.app.userService = [userRepository |-> unit.app.userRepository]
           /\ unit.app.userHandler = [userService |-> unit.app.userService]

\* The app has been built in production, where the swagger plugin is left out
C25_Witness ==
  /\ IsServer /\ unit.env = "production" /\ unit.pc = "listening"
  /\ Happened("route POST /") /\ Happened("route GET /:userId")
  /\ ~Happened("register swagger")

\* C28: whatever SIGINT and SIGTERM signals arrive once the shutdown
\* handlers are installed, a second one during the close included, the
\* server's close is called at most once, and exactly once when a signal was
\* handled; the process exits with code 0 after a close that succeeded and
\* with code 1 after one that failed.
C28_CloseAtMostOnce ==
  IsServer
  => /\ unit.closeCalls <= 1
     /\ Times("close") = unit.closeCalls
     /\ unit.shuttingDown <=> unit.closeCalls = 1
     /\ (unit.handlers # {} /\ unit.signals > 0) => unit.closeCalls = 1
     /\ Happened("closed") => (unit.pc = "exited" /\ unit.exitCode = 0)
     /\ Happened("close failed") => (unit.pc = "exited" /\ unit.exitCode = 1)
     /\ (unit.pc = "exited" /\ unit.closeCalls = 1)
        => (Happened("closed") \/ Happened("close failed"))

\* Two signals were handled, the second during the close, which then failed
C28_Witness ==
  /\ IsServer /\ unit.handlers = Signals
  /\ Happened("signal SIGINT") /\ Happened("signal SIGTERM")
  /\ Before("close", "signal SIGTERM")
  /\ unit.closeCalls = 1 /\ unit.exitCode = 1

\* C29: the shutdown handlers are installed only after the app was built
\* and listen succeeded; when buildApp or listen fails, no handler is
\* installed and the process exits with code 1.
C29_HandlersAfterListen ==
  IsServer
  => /\ (unit.handlers # {} \/ Happened("on SIGINT") \/ Happened("on SIGTERM"))
        => /\ unit.handlers = Signals
           /\ Before("route GET /health", "listen")
           /\ Before("listen", "on SIGINT")
           /\ Before("listen", "on SIGTERM")
     /\ (Happened("buildApp failed") \/ Happened("listen failed"))
        => /\ unit.handlers = {}
           /\ ~Happened("on SIGINT") /\ ~Happened("on SIGTERM")
           /\ unit.pc = "exited" /\ unit.exitCode = 1
     /\ unit.pc = "serving" => unit.handlers = Signals

\* The server listens with its handlers installed
C29_Witness ==
  /\ IsServer /\ unit.pc = "serving" /\ unit.handlers = Signals
  /\ Before("listen", "on SIGINT")

\* The handler of the unit has sent one reply, as the last thing it did
OneReplyAtTheEnd ==
  /\ unit.handled.resp # NoResponse
  /\ Replies(unit.handled.log) = 1
  /\ unit.handled.log[Len(unit.handled.log)] = ReplyEvent(unit.handled.resp)

\* C26: each invocation of a handler sends exactly one reply, whatever its
\* service call settles with (an entity, an absent user, an
\* ApplicationError, a DatabaseError or any other error): it always ends in
\* a reply and never in an exception, and it has sent no reply while the
\* service call is still pending.
C26_ExactlyOneReply ==
  unit.op \in {"UserHandler.createUser", "UserHandler.getUserById"}
  => /\ unit.pc = "called" => unit.handled = NotHandled
     /\ unit.pc = "done" => OneReplyAtTheEnd
     /\ OneReplyAtTheEnd
        = (HandlerOn(unit.svc) = unit.handled /\ unit.pc = "done")

\* The read handler has answered an absent user
C26_Witness ==
  /\ Handler("UserHandler.getUserById")
  /\ unit.svc = Return(Null, <<>>)
  /\ unit.handled.resp.status = 404
  /\ OneReplyAtTheEnd

\* The pre-check of the creation r failed: findByEmail raised
PrecheckFailed(req) == req.kind = "POST" /\ req.found.tag = "throw"

\* What a creation whose pre-check failed has come to
NoInsertAnd500(req) ==
  /\ req.pc = "done"
  /\ req.repoCalls = {"findByEmail"}
  /\ Len(req.answers) = 1
  /\ req.created = NoOutcome
  /\ req.svc = req.found
  /\ req.replies = 1
  /\ req.resp.status = 500
  /\ req.resp.error = "Internal Server Error"
  /\ req.found.err.name = "DatabaseError"
  /\ req.resp.message = "A database error occurred while creating the user."
  /\ req.resp.message # req.found.err.message

\* C27: when the pre-check of a creation fails, findByEmail raising because
\* the store answered with an error, createUser attempts no insert: the step
\* in which the pre-check fails leaves the store as it was and ends the
\* request, the repository's create is never called for it, and the client
\* is answered 500 with the generic database message.
C27_FailedPrecheckNoInsert ==
  /\ [](\A r \in Requests : PrecheckFailed(reqs[r]) => NoInsertAnd500(reqs[r]))
  /\ [][\A r \in Requests :
          (reqs[r].pc = "findByEmail" /\ PrecheckFailed(reqs'[r]))
          => (store' = store /\ NoInsertAnd500(reqs'[r]))]_vars

\* A creation whose pre-check failed on a store error has been answered
C27_Witness ==
  \E r \in Requests :
    /\ PrecheckFailed(reqs[r])
    /\ reqs[r].answers[1].error # NoPgError
    /\ reqs[r].resp.status = 500

\* The generator of the unit, and the path its next call is about
IsGenerator == unit.op = "generate-module"
RunOver == unit.call > Len(unit.calls)
NextPath == join(unit.calls[unit.call].dirPath, unit.calls[unit.call].fileName)

\* C30: the generator never overwrites an existing file. A target file that
\* exists, whether it was there before the first run or was created by an
\* earlier call or run, keeps its content from then on; a call that finds
\* its file there changes no file and is followed by the next call; and a
\* second run leaves every file the first run left as it was.
C30_NeverOverwrites ==
  /\ [](IsGenerator
         => \A p \in DOMAIN unit.files :
              /\ unit.initial[p].exists => unit.files[p] = unit.initial[p]
              /\ unit.before[p].exists => unit.files[p] = unit.before[p])
  /\ [][(IsGenerator /\ ~RunOver)
         => /\ unit'.call = unit.call + 1
            /\ \A p \in DOMAIN unit.files :
                 (unit.files[p].exists \/ p # NextPath) => unit'.files[p] = unit.files[p]
            /\ unit.files[NextPath].exists
               => unit'.console = "warn: File already exists (Skipping)"]_vars

\* A second run is over: it skipped a file written by hand and a file the
\* first run had created, and went on to the last call
C30_Witness ==
  /\ IsGenerator /\ unit.run = 2 /\ RunOver
  /\ \E p, q \in DOMAIN unit.files :
       /\ unit.initial[p] = File("written by hand") /\ unit.files[p] = unit.initial[p]
       /\ ~unit.initial[q].exists /\ unit.before[q].exists
       /\ unit.before[q].content # "" /\ unit.files[q] = unit.before[q]
  /\ unit.console = "warn: File already exists (Skipping)"

====
